---- MODULE Spec2Model ----
(***************************************************************************)
(* A model of the ethzlunch maubot plugin: the reminder store              *)
(* (ETHzLunchDatabase), the per-user preferences cache and rate-limit      *)
(* window (UserInfo), and the command handlers of ETHzLunchBot.            *)
(*                                                                         *)
(* Time is counted in ticks; TicksPerSecond ticks make one second, so a    *)
(* datetime with a non-zero microsecond part is a tick count that is not a *)
(* multiple of TicksPerSecond.  The rate-limit window is counted in ticks  *)
(* as well.                                                                *)
(***************************************************************************)
EXTENDS Integers, Sequences, FiniteSets, TLC

\* ------------------------------------------------------------------ bounds
MaxTime == 3
TicksPerSecond == 2
\* arguments of check_rate_limit (max_calls, time_window) used by the callers
MaxCalls == 2
TimeWindow == 1
\* configuration values rate_limit and rate_limit_minutes
rate_limit == 1
rate_limit_minutes == 2

\* ----------------------------------------------------------------- domains
Users == {"u1", "u2"}
RemIds == {"e1", "e2"}
SubIds == {"s1", "s2"}
Times == 0..MaxTime

None == "None"

\* an optional datetime: None, or an instant in ticks
NoTime == [set |-> FALSE, t |-> 0]
At(t) == [set |-> TRUE, t |-> t]

\* the text of a start_time column: NULL, an ISO-8601 text, or a text that
\* is no ISO-8601 date
NullText == [kind |-> "null", t |-> 0]
BadText == [kind |-> "bad", t |-> 0]

\* datetime.replace(microsecond=0)
replace_microsecond0(dt) == At(dt.t - (dt.t % TicksPerSecond))

\* datetime.isoformat(): lossless, the microseconds are part of the text
isoformat(dt) == [kind |-> "iso", t |-> dt.t]

\* datetime.fromisoformat(text) raises ValueError on a text that is no date
fromisoformat_raises(text) == text.kind = "bad"
fromisoformat(text) == At(text.t)

\* a Python dict as a function; d[k] = v
EmptyDict == [x \in {} |-> None]
Put(d, k, v) == [x \in DOMAIN d \cup {k} |-> IF x = k THEN v ELSE d[x]]
Drop(d, k) == [x \in DOMAIN d \ {k} |-> d[x]]

\* every ordering of a finite set, as the sequences a SELECT may return
Orderings(S) ==
    {s \in [1..Cardinality(S) -> S] : \A i, j \in 1..Cardinality(S) : i # j => s[i] # s[j]}

\* Python truthiness of an optional string
Truthy(s) == s # None /\ s # ""


\* ------------------------------------------------------------------- state
VARIABLES
    now,              \* the clock, datetime.now(tz=pytz.UTC), in ticks
    config,           \* the plugin configuration (self.config)
    power,            \* the room's power levels: user -> level
    user_settings,    \* table user_settings: user -> row
    reminder,         \* table reminder: a set of rows
    reminder_target,  \* table reminder_target: a set of rows
    defaults,         \* ETHzLunchDatabase.defaults
    cache,            \* ETHzLunchDatabase.cache: user -> UserInfo
    deques,           \* the deque objects that UserInfo.last_reminders refer to
    reminders,        \* ETHzLunchBot.reminders: event id -> Reminder
    jobs,             \* the event ids whose Reminder has an armed scheduler job
    load,             \* the load_all coroutine run by start()
    handlers,         \* the command handlers in flight: event id -> coroutine state
    replies,          \* the replies sent: event id -> text
    hist              \* history of the calls made, read by the properties only

vars == <<now, config, power, user_settings, reminder, reminder_target, defaults,
          cache, deques, reminders, jobs, load, handlers, replies, hist>>

\* ------------------------------------------------------- util.py: UserInfo
\* The deque objects.  The class attribute default of UserInfo.last_reminders
\* is one deque object, DefaultDeque, made when the class body is evaluated.
DefaultDeque == "cls"
DequeIds == {DefaultDeque} \cup Users

\* UserInfo(locale=..., timezone=..., price=..., facilities=...): the caller
\* passes no last_reminders, so the field refers to the class default object.
UserInfo(locale, timezone, price, facilities) ==
    [locale |-> locale, timezone |-> timezone, price |-> price,
     facilities |-> facilities, last_reminders |-> DefaultDeque]

\* the locales dateparser knows and the time zones pytz knows
KnownLocales == {"en", "de", "fr"}
KnownTimezones == {"UTC", "Europe/Zurich"}

validate_locale(locale) == locale \in KnownLocales
validate_timezone(tz) == tz \in KnownTimezones

\* str.lower() on the price texts of the model
Lower(s) == IF s = "INT" THEN "int" ELSE s
validate_price(price) == Lower(price) \in {"int", "ext", "stud", "off"}

\* isinstance(facilities, str): every non-None value of the model is a str
validate_facilities(facilities) == facilities # None

\* the loop comparing with <= instead of <
RECURSIVE Evict_inclusive(_, _, _)
Evict_inclusive(q, t, time_window) ==
    IF Len(q) > 0 /\ q[1] + time_window <= t
    THEN Evict_inclusive(Tail(q), t, time_window)
    ELSE q

\* the while loop of check_rate_limit: pop from the left while the first
\* timestamp plus the window is before now
RECURSIVE Evict(_, _, _)
Evict(q, t, time_window) ==
    IF Len(q) > 0 /\ q[1] + time_window < t
    THEN Evict(Tail(q), t, time_window)
    ELSE q

\* the length test off by one
RateLimitDeque_off_by_one(q, t, max_calls, time_window) ==
    LET kept == Evict(q, t, time_window)
    IN IF Len(kept) <= max_calls THEN Append(kept, t) ELSE kept

\* the deque after check_rate_limit(max_calls, time_window) at time t
RateLimitDeque(q, t, max_calls, time_window) ==
    LET kept == Evict(q, t, time_window)
    IN IF Len(kept) < max_calls THEN Append(kept, t) ELSE kept

\* the value check_rate_limit returns
RateLimitResult(q, t, max_calls, time_window) ==
    Len(RateLimitDeque(q, t, max_calls, time_window))


\* ------------------------------------------------- reminder.py: Reminder
Rooms == {"r1", "r2"}
GoodCron == "0 9 * * mon-fri"
BadCron == "0 9 * * xyz"

\* the trigger variants a set of constructor arguments populates; start_time
\* is the next instant of a recurring reminder and the one-off variant only
\* when neither a period nor a cron text comes with it
Variants(start_time, recur_every, cron_tab) ==
    (IF Truthy(cron_tab) THEN {"cron"} ELSE {})
    \cup (IF Truthy(recur_every) THEN {"interval"} ELSE {})
    \cup (IF start_time.set /\ ~Truthy(recur_every) /\ ~Truthy(cron_tab)
          THEN {"oneoff"} ELSE {})

\* the constructor rejecting only a call without any trigger
Reminder_raises_lenient(start_time, recur_every, cron_tab) ==
    \/ cron_tab = BadCron
    \/ Cardinality(Variants(start_time, recur_every, cron_tab)) = 0

\* Reminder.__init__ raises (CommandSyntaxError, a ValueError) on a cron text
\* it cannot parse and unless exactly one trigger variant is populated
Reminder_raises(start_time, recur_every, cron_tab) ==
    \/ cron_tab = BadCron
    \/ Cardinality(Variants(start_time, recur_every, cron_tab)) # 1

\* the object Reminder.__init__ builds from its arguments
Reminder(event_id, room_id, message, start_time, recur_every, cron_tab, is_agenda, subscribed_users, creator, confirmation_event) ==
    [event_id |-> event_id, room_id |-> room_id, message |-> message,
     reply_to |-> None, start_time |-> start_time, recur_every |-> recur_every,
     cron_tab |-> cron_tab, is_agenda |-> is_agenda,
     subscribed_users |-> subscribed_users, creator |-> creator,
     confirmation_event |-> confirmation_event]

\* ------------------------------------------------ db.py: ETHzLunchDatabase
\* the positional arguments cron_tab and recur_every passed in the other order
ReminderRow_swapped(r) ==
    [event_id |-> r.event_id,
     room_id |-> r.room_id,
     start_time |-> IF r.start_time.set
                    THEN isoformat(replace_microsecond0(r.start_time))
                    ELSE NullText,
     message |-> r.message,
     reply_to |-> r.reply_to,
     cron_tab |-> r.recur_every,
     recur_every |-> r.cron_tab,
     is_agenda |-> r.is_agenda,
     creator |-> r.creator,
     confirmation_event |-> None]

\* the row store_reminder inserts for a Reminder; confirmation_event is not
\* among the inserted columns and stays NULL
ReminderRow(r) ==
    [event_id |-> r.event_id,
     room_id |-> r.room_id,
     start_time |-> IF r.start_time.set
                    THEN isoformat(replace_microsecond0(r.start_time))
                    ELSE NullText,
     message |-> r.message,
     reply_to |-> r.reply_to,
     cron_tab |-> r.cron_tab,
     recur_every |-> r.recur_every,
     is_agenda |-> r.is_agenda,
     creator |-> r.creator,
     confirmation_event |-> None]

\* INSERT INTO reminder
store_reminder(r) == reminder' = reminder \cup {ReminderRow(r)}

\* the WHERE clause naming another column
delete_reminder_by_creator(event_id) ==
    reminder' = {row \in reminder : row.creator # event_id}

\* DELETE FROM reminder WHERE event_id = $1
delete_reminder(event_id) ==
    reminder' = {row \in reminder : row.event_id # event_id}

\* an INSERT OR REPLACE keyed by reminder and user
add_subscriber_replace(reminder_id, user_id, subscribing_event) ==
    reminder_target' =
        {row \in reminder_target : ~(row.event_id = reminder_id /\ row.user_id = user_id)}
        \cup {[event_id |-> reminder_id, user_id |-> user_id,
               subscribing_event |-> subscribing_event]}

\* INSERT INTO reminder_target
add_subscriber(reminder_id, user_id, subscribing_event) ==
    reminder_target' = reminder_target \cup
        {[event_id |-> reminder_id, user_id |-> user_id,
          subscribing_event |-> subscribing_event]}

\* UPDATE reminder SET confirmation_event = $1 WHERE event_id = $2
set_confirmation_event(event_id, confirmation_event) ==
    reminder' = {IF row.event_id = event_id
                 THEN [row EXCEPT !.confirmation_event = confirmation_event]
                 ELSE row : row \in reminder}

\* one row of SELECT ... FROM reminder NATURAL JOIN reminder_target
JoinRow(row, target) ==
    [event_id |-> row.event_id, room_id |-> row.room_id, message |-> row.message,
     reply_to |-> row.reply_to, start_time |-> row.start_time,
     recur_every |-> row.recur_every, cron_tab |-> row.cron_tab,
     is_agenda |-> row.is_agenda, user_id |-> target.user_id,
     confirmation_event |-> row.confirmation_event,
     subscribing_event |-> target.subscribing_event, creator |-> row.creator]

NaturalJoin ==
    {JoinRow(row, target) : <<row, target>> \in
        {p \in reminder \X reminder_target : p[1].event_id = p[2].event_id}}

\* the UserInfo get_user_info builds from the fetched row (an empty dict when
\* the user has no row)
LoadedUserInfo(row, dflt) ==
    LET val(key) == IF key \in DOMAIN row THEN row[key] ELSE dflt[key]
        locale == val("locale")
        timezone == val("timezone")
        price == val("price")
        facilities == val("facilities")
    IN UserInfo(
        IF ~Truthy(locale) \/ ~validate_locale(locale) THEN dflt.locale ELSE locale,
        IF ~Truthy(timezone) \/ ~validate_timezone(timezone) THEN dflt.timezone ELSE timezone,
        IF ~Truthy(price) \/ ~validate_price(price) THEN dflt.price ELSE price,
        IF ~Truthy(facilities) \/ ~validate_facilities(facilities)
        THEN dflt.facilities ELSE facilities)

\* SELECT ... FROM user_settings WHERE user_id = $1, as dict(row or {})
FetchUserRow(user_id) ==
    IF user_id \in DOMAIN user_settings THEN user_settings[user_id] ELSE EmptyDict


\* get_user_info run to completion: a miss reads the row and fills the cache
get_user_info(user_id) ==
    cache' = IF user_id \in DOMAIN cache
             THEN cache
             ELSE Put(cache, user_id, LoadedUserInfo(FetchUserRow(user_id), defaults))

\* ---------------------------------------------------- db.py: load_all
LoadIdle == [pc |-> "idle", rows_reminders |-> <<>>, rows |-> <<>>, i |-> 1,
             reminders |-> EmptyDict]

\* a one-off row: start_time set, not an agenda, no recur_every, no cron_tab
IsOneOffRow(row) ==
    /\ row.start_time.kind # "null"
    /\ ~row.is_agenda
    /\ ~Truthy(row.recur_every)
    /\ ~Truthy(row.cron_tab)

\* the join rows put before the reminder rows
LoadRows_subscribers_first(rows_reminders, rows_subscribers) ==
    rows_subscribers \o rows_reminders

\* rows = rows_reminders + rows_subscribers
LoadRows(rows_reminders, rows_subscribers) == rows_reminders \o rows_subscribers

\* the comparison turned around
MissedAt_flipped(start_time, t) == start_time.t > t

\* start_time < now
MissedAt(start_time, t) == start_time.t < t

\* first query: SELECT ... FROM reminder
load_fetch_reminders ==
    /\ load.pc = "idle"
    /\ \E rows_reminders \in Orderings(reminder) :
          load' = [load EXCEPT !.pc = "fetched", !.rows_reminders = rows_reminders]
    /\ hist' = [hist EXCEPT !.t0 = now, !.snapshot = reminder,
                            !.targets0 = reminder_target,
                            !.deleted = {}, !.built = <<>>]
    /\ UNCHANGED <<now, config, power, user_settings, reminder, reminder_target,
                   defaults, cache, deques, reminders, jobs, handlers, replies>>

\* second query: SELECT ... FROM reminder NATURAL JOIN reminder_target
load_fetch_subscribers ==
    /\ load.pc = "fetched"
    /\ \E rows_subscribers \in Orderings(NaturalJoin) :
          load' = [load EXCEPT !.pc = "loop", !.rows_reminders = <<>>,
                               !.rows = LoadRows(load.rows_reminders, rows_subscribers),
                               !.i = 1, !.reminders = EmptyDict]
    /\ UNCHANGED <<now, config, power, user_settings, reminder, reminder_target,
                   defaults, cache, deques, reminders, jobs, handlers, replies, hist>>

\* one iteration of "for row in rows"
load_row ==
    /\ load.pc = "loop"
    /\ load.i <= Len(load.rows)
    /\ LET row == load.rows[load.i]
           is_sub == "user_id" \in DOMAIN row
           rid == row.event_id
       IN IF is_sub /\ rid \in DOMAIN load.reminders
          THEN \* fold the subscriber into the reminder already built
               /\ load' = [load EXCEPT
                     !.i = @ + 1,
                     !.reminders[rid].subscribed_users =
                         Put(@, row.subscribing_event, row.user_id)]
               /\ UNCHANGED <<reminder, cache, jobs, hist>>
          ELSE LET subscribed_users ==
                       IF is_sub
                       THEN Put(EmptyDict, row.subscribing_event, row.user_id)
                       ELSE EmptyDict
               IN IF fromisoformat_raises(row.start_time)
                  THEN \* datetime.fromisoformat raises ValueError
                       /\ load' = [LoadIdle EXCEPT !.pc = "raised"]
                       /\ UNCHANGED <<reminder, cache, jobs, hist>>
                  ELSE LET start_time == IF row.start_time.kind = "null"
                                         THEN NoTime
                                         ELSE fromisoformat(row.start_time)
                       IN IF IsOneOffRow(row) /\ MissedAt(start_time, now)
                          THEN \* a missed one-off: delete the row, continue
                               /\ delete_reminder(rid)
                               /\ load' = [load EXCEPT !.i = @ + 1]
                               /\ hist' = [hist EXCEPT !.deleted = @ \cup {rid}]
                               /\ UNCHANGED <<cache, jobs>>
                          ELSE /\ get_user_info(row.creator)
                               /\ IF Reminder_raises(start_time, row.recur_every, row.cron_tab)
                                  THEN /\ load' = [LoadIdle EXCEPT !.pc = "raised"]
                                       /\ UNCHANGED <<reminder, jobs, hist>>
                                  ELSE /\ load' = [load EXCEPT
                                             !.i = @ + 1,
                                             !.reminders = Put(@, rid,
                                                 Reminder(rid, row.room_id, row.message,
                                                          start_time, row.recur_every,
                                                          row.cron_tab, row.is_agenda,
                                                          subscribed_users, row.creator,
                                                          row.confirmation_event))]
                                       /\ jobs' = jobs \cup {rid}
                                       /\ hist' = [hist EXCEPT !.built = Append(@, rid)]
                                       /\ UNCHANGED reminder
    /\ UNCHANGED <<now, config, power, user_settings, reminder_target, defaults,
                   deques, reminders, handlers, replies>>

\* return reminders; start() assigns self.reminders and completes
load_return ==
    /\ load.pc = "loop"
    /\ load.i > Len(load.rows)
    /\ load' = [LoadIdle EXCEPT !.pc = "returned"]
    /\ reminders' = load.reminders
    /\ UNCHANGED <<now, config, power, user_settings, reminder, reminder_target,
                   defaults, cache, deques, jobs, handlers, replies, hist>>


\* ------------------------------------------------ bot.py: configuration
\* ",".join(default_facilities) for the lists of the model
JoinComma(list) ==
    IF Len(list) = 0 THEN ""
    ELSE IF Len(list) = 1 THEN list[1]
    ELSE "poly,fusion"

\* on_external_config_update: db.defaults from the configuration; an unknown
\* default locale or time zone falls back to "en" or "UTC", the default price
\* and facilities are copied as they are
on_external_config_update(cfg) ==
    UserInfo(IF validate_locale(cfg.default_locale) THEN cfg.default_locale ELSE "en",
             IF validate_timezone(cfg.default_timezone) THEN cfg.default_timezone ELSE "UTC",
             cfg.default_price,
             JoinComma(cfg.default_facilities))

admin_power_level == 50

BaseConfig ==
    [default_locale |-> "en", default_timezone |-> "Europe/Zurich",
     default_price |-> "int", default_facilities |-> <<"poly", "fusion">>,
     admin_power_level |-> admin_power_level,
     rate_limit |-> rate_limit, rate_limit_minutes |-> rate_limit_minutes]

\* --------------------------------------------------------------- history
NoCall == [user |-> None, t |-> 0, max_calls |-> 0, time_window |-> 0,
           before |-> <<>>, after |-> <<>>, ret |-> 0,
           appended |-> FALSE, prior |-> <<>>]

HistInit ==
    [created |-> EmptyDict, t0 |-> 0, snapshot |-> {}, targets0 |-> {}, deleted |-> {}, built |-> <<>>,
     orig |-> EmptyDict,
     last |-> NoCall, recorded |-> <<>>, callers |-> {}, params |-> {},
     cancelled |-> {}, dropped |-> {},
     tomb |-> [old |-> None, new |-> None, ids |-> {}]]

\* ------------------------------------ the store and its reconciliation
\* the Reminder objects a caller may hand to store_reminder: one-offs at any
\* instant, an interval reminder, an agenda entry and a cron reminder
NewReminders(event_id) ==
    {Reminder(event_id, "r1", "poly", At(t), None, None, FALSE, EmptyDict, "u1", None) :
        t \in Times}
    \cup {Reminder(event_id, "r1", "poly", At(1), "1 day", None, FALSE, EmptyDict, "u1", None),
          Reminder(event_id, "r1", None, At(0), None, None, TRUE, EmptyDict, "u1", None),
          Reminder(event_id, "r1", "poly", NoTime, None, GoodCron, FALSE, EmptyDict, "u1", None)}

\* rows found in the table at startup: a start_time that is no date and a
\* row with two trigger columns set, as an earlier version or a manual edit
\* leaves them, and the row of a cron reminder whose start_time was set by
\* reschedule_reminder
LegacyRows ==
    {[event_id |-> "e1", room_id |-> "r1", start_time |-> isoformat(At(TicksPerSecond)),
      message |-> "poly", reply_to |-> None, cron_tab |-> GoodCron, recur_every |-> None,
      is_agenda |-> FALSE, creator |-> "u1", confirmation_event |-> None]} \cup
    {[event_id |-> "e1", room_id |-> "r1", start_time |-> BadText, message |-> "poly",
      reply_to |-> None, cron_tab |-> None, recur_every |-> None, is_agenda |-> FALSE,
      creator |-> "u1", confirmation_event |-> None],
     [event_id |-> "e1", room_id |-> "r1", start_time |-> NullText, message |-> "poly",
      reply_to |-> None, cron_tab |-> GoodCron, recur_every |-> "1 day", is_agenda |-> FALSE,
      creator |-> "u1", confirmation_event |-> None]}

InitLoad ==
    /\ now = 0
    /\ config = BaseConfig
    /\ power = [u \in Users |-> 0]
    /\ user_settings = EmptyDict
    /\ reminder \in {{}} \cup {{row} : row \in LegacyRows}
    /\ reminder_target = {}
    /\ defaults = on_external_config_update(config)
    /\ cache = EmptyDict
    /\ deques = [d \in DequeIds |-> <<>>]
    /\ reminders = EmptyDict
    /\ jobs = {}
    /\ load = LoadIdle
    /\ handlers = EmptyDict
    /\ replies = EmptyDict
    /\ hist = HistInit

Tick ==
    /\ now < MaxTime
    /\ now' = now + 1
    /\ UNCHANGED <<config, power, user_settings, reminder, reminder_target, defaults,
                   cache, deques, reminders, jobs, load, handlers, replies, hist>>

\* a caller persists a new Reminder
StoreReminder ==
    /\ load.pc = "idle"
    /\ \E event_id \in RemIds : \E r \in NewReminders(event_id) :
          /\ event_id \notin DOMAIN hist.orig
          /\ \A row \in reminder : row.event_id # event_id
          /\ store_reminder(r)
          /\ hist' = [hist EXCEPT !.orig = Put(@, event_id, r)]
    /\ UNCHANGED <<now, config, power, user_settings, reminder_target, defaults,
                   cache, deques, reminders, jobs, load, handlers, replies>>

\* a caller persists a subscriber of a stored Reminder
AddSubscriber ==
    /\ load.pc = "idle"
    /\ \E rid \in DOMAIN hist.orig, user_id \in Users, sid \in SubIds :
          /\ \E row \in reminder : row.event_id = rid
          /\ \A target \in reminder_target : target.subscribing_event # sid
          /\ add_subscriber(rid, user_id, sid)
          /\ hist' = [hist EXCEPT !.orig[rid].subscribed_users = Put(@, sid, user_id)]
    /\ UNCHANGED <<now, config, power, user_settings, reminder, defaults,
                   cache, deques, reminders, jobs, load, handlers, replies>>

\* the process ends and is started again: the memory is lost, the store stays
Restart ==
    /\ load.pc \in {"returned", "raised"}
    /\ load' = LoadIdle
    /\ cache' = EmptyDict
    /\ deques' = [d \in DequeIds |-> <<>>]
    /\ reminders' = EmptyDict
    /\ jobs' = {}
    /\ hist' = [HistInit EXCEPT !.orig = hist.orig]
    /\ UNCHANGED <<now, config, power, user_settings, reminder, reminder_target,
                   defaults, handlers, replies>>

NextLoad ==
    \/ Tick
    \/ StoreReminder
    \/ AddSubscriber
    \/ load_fetch_reminders
    \/ load_fetch_subscribers
    \/ load_row
    \/ load_return
    \/ Restart

SpecLoad == InitLoad /\ [][NextLoad]_vars


\* ------------------------------------------------ properties of load_all
\* a stored row is a one-off whose instant is before the instant t
RowMissedBy(row, t) ==
    /\ row.start_time.kind = "iso"
    /\ row.recur_every = None
    /\ row.cron_tab = None
    /\ row.is_agenda = FALSE
    /\ row.start_time.t < t

StoredIds(rows) == {row.event_id : row \in rows}

\* the subscriber map the join rows of one reminder id amount to
SubscribersOf(targets, rid) ==
    {<<target.subscribing_event, target.user_id>> :
        target \in {x \in targets : x.event_id = rid}}

DictPairs(d) == {<<k, d[k]>> : k \in DOMAIN d}

\* C1: after load_all has returned, every one-off row that was stored when
\* load_all started and whose start_time was before the clock at that time
\* is absent from the registry and from the reminder table, with or without
\* subscriber rows.
C1_MissedOneOffDropped ==
    load.pc = "returned" =>
        \A row \in hist.snapshot :
            RowMissedBy(row, hist.t0) =>
                /\ row.event_id \notin DOMAIN reminders
                /\ row.event_id \notin StoredIds(reminder)

C1_Witness ==
    /\ load.pc = "returned"
    /\ \E row \in hist.snapshot :
          /\ RowMissedBy(row, hist.t0)
          /\ SubscribersOf(hist.targets0, row.event_id) # {}
          /\ row.event_id \notin DOMAIN reminders

\* C2: after load_all has returned, the registry holds exactly the stored
\* ids minus the discarded ones, only missed one-offs are discarded, each
\* id was built into one Reminder only, and each Reminder's subscriber map
\* is exactly the (subscribing_event, user_id) pairs of its join rows.
C2_RegistryIsStoreMinusMissed ==
    load.pc = "returned" =>
        /\ DOMAIN reminders = StoredIds(hist.snapshot) \ hist.deleted
        /\ \A rid \in hist.deleted :
              \E row \in hist.snapshot : row.event_id = rid /\ RowMissedBy(row, now)
        /\ \A row \in hist.snapshot :
              ~RowMissedBy(row, now) => row.event_id \in DOMAIN reminders
        /\ \A rid \in DOMAIN reminders :
              /\ Cardinality({i \in 1..Len(hist.built) : hist.built[i] = rid}) = 1
              /\ DictPairs(reminders[rid].subscribed_users)
                    = SubscribersOf(hist.targets0, rid)

C2_Witness ==
    /\ load.pc = "returned"
    /\ \E rid \in DOMAIN reminders :
          /\ reminders[rid].recur_every # None
          /\ reminders[rid].start_time.t < hist.t0
          /\ Cardinality(DOMAIN reminders[rid].subscribed_users) = 2

\* the trigger policy, payload and subscribers of a loaded Reminder are
\* those of the Reminder that was stored, the start_time to the second
SameReminder(loaded, stored) ==
    /\ loaded.start_time.set = stored.start_time.set
    /\ loaded.start_time.t \div TicksPerSecond = stored.start_time.t \div TicksPerSecond
    /\ loaded.recur_every = stored.recur_every
    /\ loaded.cron_tab = stored.cron_tab
    /\ loaded.is_agenda = stored.is_agenda
    /\ loaded.message = stored.message
    /\ DictPairs(loaded.subscribed_users) = DictPairs(stored.subscribed_users)

\* a one-off Reminder whose start_time, cut to the second, is before t
MissedBy(r, t) ==
    /\ r.start_time.set
    /\ r.recur_every = None
    /\ r.cron_tab = None
    /\ r.is_agenda = FALSE
    /\ (r.start_time.t \div TicksPerSecond) * TicksPerSecond < t

\* C3 as stated: after load_all has returned, every Reminder that was stored
\* is in the registry with the same trigger policy, payload and subscribers.
C3_RoundTripEvery ==
    load.pc = "returned" =>
        \A rid \in DOMAIN hist.orig :
            /\ rid \in DOMAIN reminders
            /\ SameReminder(reminders[rid], hist.orig[rid])

\* C3 amended: after load_all has returned, every stored Reminder that is
\* not a one-off whose start_time, cut to the second, is before the clock is
\* in the registry with the same trigger policy, payload and subscribers.
C3_RoundTripUnlessMissed ==
    load.pc = "returned" =>
        \A rid \in DOMAIN hist.orig :
            ~MissedBy(hist.orig[rid], now) =>
                /\ rid \in DOMAIN reminders
                /\ SameReminder(reminders[rid], hist.orig[rid])

C3_Witness ==
    /\ load.pc = "returned"
    /\ \E rid \in DOMAIN hist.orig :
          /\ ~MissedBy(hist.orig[rid], now)
          /\ hist.orig[rid].start_time.set
          /\ hist.orig[rid].start_time.t % TicksPerSecond # 0
          /\ DOMAIN hist.orig[rid].subscribed_users # {}
          /\ rid \in DOMAIN reminders
    /\ \E rid \in DOMAIN hist.orig : hist.orig[rid].cron_tab # None

\* C4 as stated: load_all always returns, and returns every stored row that
\* parses, builds a Reminder and is no missed one-off, whatever the other
\* rows hold.
C4_BadRowSkipped ==
    load.pc \in {"returned", "raised"} =>
        /\ load.pc = "returned"
        /\ \A row \in hist.snapshot :
              (/\ row.start_time.kind # "bad"
               /\ ~Reminder_raises(IF row.start_time.kind = "null" THEN NoTime
                                    ELSE fromisoformat(row.start_time),
                                    row.recur_every, row.cron_tab)
               /\ ~RowMissedBy(row, now))
              => row.event_id \in DOMAIN reminders


\* ------------------------------------------- util.py: check_rate_limit
InitRate ==
    /\ now = 0
    /\ config = BaseConfig
    /\ power = [u \in Users |-> 0]
    /\ user_settings = EmptyDict
    /\ reminder = {}
    /\ reminder_target = {}
    /\ defaults = on_external_config_update(config)
    /\ cache = EmptyDict
    /\ deques = [d \in DequeIds |-> <<>>]
    /\ reminders = EmptyDict
    /\ jobs = {}
    /\ load = LoadIdle
    /\ handlers = EmptyDict
    /\ replies = EmptyDict
    /\ hist = HistInit

\* a first get_user_info(user_id) puts the user's UserInfo into the cache
RateGetUserInfo ==
    /\ \E user_id \in Users :
          /\ user_id \notin DOMAIN cache
          /\ get_user_info(user_id)
    /\ UNCHANGED <<now, config, power, user_settings, reminder, reminder_target,
                   defaults, deques, reminders, jobs, load, handlers, replies, hist>>

\* user_info.check_rate_limit(max_calls, time_window) on a cached UserInfo
check_rate_limit(user_id, max_calls, time_window) ==
    LET self == cache[user_id]
        q == deques[self.last_reminders]
        after == RateLimitDeque(q, now, max_calls, time_window)
        ret == RateLimitResult(q, now, max_calls, time_window)
        appended == after # Evict(q, now, time_window)
    IN /\ deques' = [deques EXCEPT ![self.last_reminders] = after]
       /\ hist' = [hist EXCEPT
             !.last = [user |-> user_id, t |-> now, max_calls |-> max_calls,
                       time_window |-> time_window, before |-> q, after |-> after,
                       ret |-> ret, appended |-> appended, prior |-> hist.recorded],
             !.recorded = IF appended THEN Append(@, now) ELSE @,
             !.callers = @ \cup {user_id},
             !.params = @ \cup {<<max_calls, time_window>>}]

CheckRateLimit ==
    /\ \E user_id \in DOMAIN cache :
       \E max_calls \in {MaxCalls - 1, MaxCalls} :
       \E time_window \in {TimeWindow, TimeWindow + 1} :
          check_rate_limit(user_id, max_calls, time_window)
    /\ UNCHANGED <<now, config, power, user_settings, reminder, reminder_target,
                   defaults, cache, reminders, jobs, load, handlers, replies>>

NextRate ==
    \/ Tick
    \/ RateGetUserInfo
    \/ CheckRateLimit

SpecRate == InitRate /\ [][NextRate]_vars


\* ------------------------------------------ properties of the rate limit
\* the sequence s without every timestamp older than time_window at time t
WithoutOld(s, t, time_window) ==
    LET InWindow(x) == ~(x + time_window < t)
    IN SelectSeq(s, InWindow)

\* C5: a call of check_rate_limit leaves the user's sequence as the old one
\* without every timestamp older than time_window, with the current time
\* appended if fewer than max_calls remain, and returns the new length.
C5_CheckRateLimitContract ==
    hist.last.user # None =>
        LET c == hist.last
            kept == WithoutOld(c.before, c.t, c.time_window)
        IN /\ kept = SubSeq(c.before, Len(c.before) - Len(kept) + 1, Len(c.before))
           /\ c.after = IF Len(kept) < c.max_calls THEN Append(kept, c.t) ELSE kept
           /\ c.ret = Len(c.after)
           /\ deques[cache[c.user].last_reminders] = c.after

C5_Witness ==
    /\ hist.last.user # None
    /\ Len(hist.last.before) > 0
    /\ hist.last.before[1] + hist.last.time_window < hist.last.t
    /\ hist.last.appended
    /\ hist.last.ret = Len(hist.last.after)

\* the calls so far were made by one user with one max_calls and time_window
OneUserFixedLimit ==
    /\ Cardinality(hist.callers) = 1
    /\ Cardinality(hist.params) = 1

\* C6: in a sequence of calls by one user with fixed max_calls and
\* time_window, an attempt made while max_calls recorded attempts are inside
\* the window returns at least max_calls and is not recorded, no window holds
\* more than max_calls recorded attempts, and an attempt made after all
\* recorded attempts have left the window is recorded and returns 1.
C6_SlidingWindow ==
    OneUserFixedLimit =>
        LET c == hist.last
            inside == {i \in DOMAIN c.prior : c.prior[i] + c.time_window >= c.t}
        IN /\ Cardinality(inside) >= c.max_calls =>
                 c.ret >= c.max_calls /\ ~c.appended /\ hist.recorded = c.prior
           /\ \A t0 \in Times :
                 Cardinality({i \in DOMAIN hist.recorded :
                                 /\ t0 <= hist.recorded[i]
                                 /\ hist.recorded[i] <= t0 + c.time_window})
                    <= c.max_calls
           /\ (c.max_calls >= 1 /\ inside = {}) =>
                 /\ c.appended
                 /\ c.ret = 1
                 /\ hist.recorded = Append(c.prior, c.t)

C6_Witness ==
    /\ OneUserFixedLimit
    /\ hist.last.max_calls >= 1
    /\ Len(hist.last.prior) >= hist.last.max_calls
    /\ \A i \in DOMAIN hist.last.prior :
          hist.last.prior[i] + hist.last.time_window < hist.last.t
    /\ hist.last.appended
    /\ hist.last.ret = 1

\* C7 as stated: a call of check_rate_limit for one user leaves the
\* timestamp sequence of every other cached user as it was.
C7_WindowPerUser ==
    [][\A u \in DOMAIN cache : \A v \in DOMAIN cache \ {u} :
          (hist'.last # hist.last /\ hist'.last.user = u)
          => deques'[cache'[v].last_reminders] = deques[cache[v].last_reminders]]_vars


\* ------------------------------------------------ bot.py: the handlers
\* A handler is a coroutine: it runs from one await to the next in one step.
\* pc names the await it is suspended at.
NoReminder == Reminder(None, None, None, NoTime, None, None, FALSE, EmptyDict, None, None)

Handler(cmd, sender, arg, pc) ==
    [cmd |-> cmd, sender |-> sender, arg |-> arg, pc |-> pc, row |-> EmptyDict,
     power_read |-> FALSE, user_power |-> 0, reminder |-> NoReminder,
     error |-> None]

\* the query of get_user_info is executed: the row, or {} when there is none
UserInfoFetch ==
    /\ \E e \in DOMAIN handlers :
          /\ handlers[e].pc = "fetch"
          /\ handlers' = [handlers EXCEPT ![e].pc = "fetched",
                                          ![e].row = FetchUserRow(handlers[e].sender)]
    /\ UNCHANGED <<now, config, power, user_settings, reminder, reminder_target,
                   defaults, cache, deques, reminders, jobs, load, replies, hist>>

\* cron = f"{minute} {hour} * * {days}", days defaulting to mon-fri
CronOf(days) == IF days = "xyz" THEN BadCron ELSE GoodCron

\* the comparison turned around
PowerTooLow_flipped(user_power) == user_power > config.admin_power_level

\* user_power < self.admin_power_level
PowerTooLow(user_power) == user_power < config.admin_power_level

\* remind, from user_info on: build the Reminder (which arms its job) and
\* call store_reminder, or reply with the syntax error
RemindBuild(e, h) ==
    LET cron == CronOf(h.arg) IN
    IF Reminder_raises(NoTime, None, cron)
    THEN /\ handlers' = [handlers EXCEPT ![e] = [h EXCEPT !.pc = "done"]]
         /\ replies' = Put(replies, e, "syntax error")
         /\ UNCHANGED jobs
    ELSE /\ handlers' = [handlers EXCEPT ![e] =
                [h EXCEPT !.pc = "store",
                          !.reminder = Reminder(e, "r1", "poly", NoTime, None, cron,
                                                FALSE, EmptyDict, h.sender, None)]]
         /\ jobs' = jobs \cup {e}
         /\ UNCHANGED replies

\* the remind command arrives; the handler asks for the room's power levels
RemindCommand(ids) ==
    /\ \E e \in ids, sender \in Users, days \in {None, "xyz"} :
          /\ e \notin DOMAIN handlers
          /\ handlers' = Put(handlers, e, Handler("remind", sender, days, "power"))
    /\ UNCHANGED <<now, config, power, user_settings, reminder, reminder_target,
                   defaults, cache, deques, reminders, jobs, load, replies, hist>>

RemindStart == RemindCommand(RemIds)

\* the power levels arrive: reply and return when the sender's level is too
\* low, else get_user_info and, on a cache hit, build and store
RemindPower ==
    /\ \E e \in DOMAIN handlers :
          LET h == [handlers[e] EXCEPT !.power_read = TRUE,
                                       !.user_power = power[handlers[e].sender]]
          IN /\ handlers[e].cmd = "remind"
             /\ handlers[e].pc = "power"
             /\ IF PowerTooLow(h.user_power)
                THEN /\ handlers' = [handlers EXCEPT ![e] = [h EXCEPT !.pc = "done"]]
                     /\ replies' = Put(replies, e, "power level required")
                     /\ UNCHANGED jobs
                ELSE IF h.sender \in DOMAIN cache
                     THEN RemindBuild(e, h)
                     ELSE /\ handlers' = [handlers EXCEPT ![e] = [h EXCEPT !.pc = "fetch"]]
                          /\ UNCHANGED <<jobs, replies>>
    /\ UNCHANGED <<now, config, power, user_settings, reminder, reminder_target,
                   defaults, cache, deques, reminders, load, hist>>

\* get_user_info resumes with the row: fill the cache, then build and store
RemindUserInfo ==
    /\ \E e \in DOMAIN handlers :
          /\ handlers[e].cmd = "remind"
          /\ handlers[e].pc = "fetched"
          /\ cache' = Put(cache, handlers[e].sender,
                          LoadedUserInfo(handlers[e].row, defaults))
          /\ RemindBuild(e, handlers[e])
    /\ UNCHANGED <<now, config, power, user_settings, reminder, reminder_target,
                   defaults, deques, reminders, load, hist>>

\* store_reminder is executed; confirm_reminder sends its reaction
RemindStore ==
    /\ \E e \in DOMAIN handlers :
          /\ handlers[e].cmd = "remind"
          /\ handlers[e].pc = "store"
          /\ store_reminder(handlers[e].reminder)
          /\ handlers' = [handlers EXCEPT ![e].pc = "confirm"]
          /\ hist' = [hist EXCEPT !.created = Put(@, e, now)]
    /\ UNCHANGED <<now, config, power, user_settings, reminder_target,
                   defaults, cache, deques, reminders, jobs, load, replies>>

\* the event id of the reaction the bot sends to the command message
ConfirmationEvent(e) == IF e = "e1" THEN "k1" ELSE "k2"

\* the reaction of confirm_reminder is sent; set_confirmation stores its id
RemindConfirm ==
    /\ \E e \in DOMAIN handlers :
          /\ handlers[e].cmd = "remind"
          /\ handlers[e].pc = "confirm"
          /\ set_confirmation_event(e, ConfirmationEvent(e))
          /\ handlers' = [handlers EXCEPT
                ![e].pc = "reply",
                ![e].reminder.confirmation_event = ConfirmationEvent(e)]
    /\ UNCHANGED <<now, config, power, user_settings, reminder_target, defaults,
                   cache, deques, reminders, jobs, load, replies, hist>>

\* the reply of confirm_reminder is sent; remind puts the Reminder into
\* self.reminders
RemindRegister ==
    /\ \E e \in DOMAIN handlers :
          /\ handlers[e].cmd = "remind"
          /\ handlers[e].pc = "reply"
          /\ reminders' = Put(reminders, e, handlers[e].reminder)
          /\ replies' = Put(replies, e, "scheduled")
          /\ handlers' = [handlers EXCEPT ![e].pc = "done"]
    /\ UNCHANGED <<now, config, power, user_settings, reminder, reminder_target,
                   defaults, cache, deques, jobs, load, hist>>

\* store_reminder raises (the store is not reachable, the statement fails):
\* nothing is inserted and the exception leaves remind, which has no handler
\* for it
RemindStoreFails ==
    /\ \E e \in DOMAIN handlers :
          /\ handlers[e].cmd = "remind"
          /\ handlers[e].pc = "store"
          /\ handlers' = [handlers EXCEPT ![e].pc = "raised",
                                          ![e].error = "StorageFailure"]
    /\ UNCHANGED <<now, config, power, user_settings, reminder, reminder_target,
                   defaults, cache, deques, reminders, jobs, load, replies, hist>>

\* evt.react or evt.reply of confirm_reminder raises: the exception leaves
\* confirm_reminder and remind before the registry insert
RemindTransportFails ==
    /\ \E e \in DOMAIN handlers :
          /\ handlers[e].cmd = "remind"
          /\ handlers[e].pc \in {"confirm", "reply"}
          /\ handlers' = [handlers EXCEPT ![e].pc = "raised",
                                          ![e].error = "TransportFailure"]
    /\ UNCHANGED <<now, config, power, user_settings, reminder, reminder_target,
                   defaults, cache, deques, reminders, jobs, load, replies, hist>>

PowerLevels == {0, admin_power_level}

Init ==
    /\ now = 0
    /\ config = BaseConfig
    /\ power \in [Users -> PowerLevels]
    /\ user_settings = EmptyDict
    /\ reminder = {}
    /\ reminder_target = {}
    /\ defaults = on_external_config_update(config)
    /\ cache = EmptyDict
    /\ deques = [d \in DequeIds |-> <<>>]
    /\ reminders = EmptyDict
    /\ jobs = {}
    /\ load = [LoadIdle EXCEPT !.pc = "returned"]
    /\ handlers = EmptyDict
    /\ replies = EmptyDict
    /\ hist = HistInit

Next ==
    \/ Tick
    \/ RemindStart
    \/ RemindPower
    \/ UserInfoFetch
    \/ RemindUserInfo
    \/ RemindStore
    \/ RemindConfirm
    \/ RemindRegister
    \/ RemindStoreFails
    \/ RemindTransportFails

Spec == Init /\ [][Next]_vars


\* ------------------------------------------- properties of remind
\* the reminders of one creator that are stored and registered and were
\* stored in the window that starts at t0
CreatedIn(u, t0) ==
    {e \in DOMAIN reminders :
        /\ reminders[e].creator = u
        /\ e \in StoredIds(reminder)
        /\ e \in DOMAIN hist.created
        /\ t0 <= hist.created[e]
        /\ hist.created[e] <= t0 + config.rate_limit_minutes}

\* C8 as stated: no user has more than rate_limit reminders, stored and
\* registered, that were created within one window of rate_limit_minutes.
C8_RateLimitEnforced ==
    \A u \in Users : \A t0 \in Times :
        Cardinality(CreatedIn(u, t0)) <= config.rate_limit

\* C10: a step of a remind handler that has read a power level of the sender
\* below admin_power_level is the step that replies and ends the handler, and
\* it leaves the store, the registry, the jobs and the cache as they were.
C10_DeniedChangesNothing ==
    [][\A e \in DOMAIN handlers :
          (/\ handlers'[e] # handlers[e]
           /\ handlers'[e].cmd = "remind"
           /\ handlers'[e].power_read
           /\ handlers'[e].user_power < admin_power_level)
          => /\ handlers'[e].pc = "done"
             /\ e \in DOMAIN replies'
             /\ replies'[e] = "power level required"
             /\ UNCHANGED <<reminder, reminder_target, user_settings, reminders,
                            jobs, cache, deques>>]_vars

C10_Witness ==
    \E e \in DOMAIN handlers : \E f \in DOMAIN reminders :
        /\ handlers[e].cmd = "remind"
        /\ handlers[e].power_read
        /\ handlers[e].user_power < admin_power_level
        /\ handlers[e].pc = "done"
        /\ replies[e] = "power level required"
        /\ e \notin StoredIds(reminder) \cup DOMAIN reminders \cup jobs
        /\ f # e


\* ------------------------------------ bot.py: the config subcommands
CmdIds == {"c1", "c2"}

\* the column a config subcommand sets
KeyOf(cmd) ==
    IF cmd = "config_lang" THEN "locale"
    ELSE IF cmd = "config_price" THEN "price"
    ELSE "facilities"

\* the arguments a config subcommand stores: lang in ["en", "de"], category
\* in ["int", "ext", "stud", "off"], any non-empty canteens text
Accepted(cmd, arg) ==
    IF cmd = "config_lang" THEN arg \in {"en", "de"}
    ELSE IF cmd = "config_price" THEN arg \in {"int", "ext", "stud", "off"}
    ELSE TRUE

ConfigArgs(cmd) ==
    IF cmd = "config_lang" THEN {"", "de", "xx"}
    ELSE IF cmd = "config_price" THEN {"", "off", "gold"}
    ELSE {"", "poly"}

\* INSERT INTO user_settings (user_id, key) VALUES ($1, $2)
\* ON CONFLICT (user_id) DO UPDATE SET key = EXCLUDED.key
Upsert(user_id, key, value) ==
    LET old == IF user_id \in DOMAIN user_settings
               THEN user_settings[user_id]
               ELSE [locale |-> None, timezone |-> None, price |-> None,
                     facilities |-> None]
    IN Put(user_settings, user_id, [old EXCEPT ![key] = value])

\* a config subcommand from the point where get_user_info has returned with
\* the cache c: show the setting, or setattr on the cached UserInfo and
\* issue the write of set_user_info
ConfigWithUserInfo(e, h, c) ==
    IF h.arg = ""
    THEN /\ cache' = c
         /\ handlers' = Put(handlers, e, [h EXCEPT !.pc = "done"])
         /\ replies' = Put(replies, e, c[h.sender][KeyOf(h.cmd)])
    ELSE /\ cache' = [c EXCEPT ![h.sender][KeyOf(h.cmd)] = h.arg]
         /\ handlers' = Put(handlers, e, [h EXCEPT !.pc = "write"])
         /\ UNCHANGED replies

\* a config subcommand arrives
ConfigStart ==
    /\ \E e \in CmdIds, sender \in Users :
       \E cmd \in {"config_lang", "config_price", "config_canteen"} :
       \E arg \in ConfigArgs(cmd) :
          LET h == Handler(cmd, sender, arg, "start") IN
          /\ e \notin DOMAIN handlers
          /\ IF arg # "" /\ ~Accepted(cmd, arg)
             THEN /\ handlers' = Put(handlers, e, [h EXCEPT !.pc = "done"])
                  /\ replies' = Put(replies, e, "unknown value")
                  /\ UNCHANGED cache
             ELSE IF sender \in DOMAIN cache
                  THEN ConfigWithUserInfo(e, h, cache)
                  ELSE /\ handlers' = Put(handlers, e, [h EXCEPT !.pc = "fetch"])
                       /\ UNCHANGED <<cache, replies>>
    /\ UNCHANGED <<now, config, power, user_settings, reminder, reminder_target,
                   defaults, deques, reminders, jobs, load, hist>>

\* get_user_info resumes with the row and fills the cache
ConfigUserInfo ==
    /\ \E e \in DOMAIN handlers :
          /\ handlers[e].cmd \in {"config_lang", "config_price", "config_canteen"}
          /\ handlers[e].pc = "fetched"
          /\ ConfigWithUserInfo(e, handlers[e],
                Put(cache, handlers[e].sender,
                    LoadedUserInfo(handlers[e].row, defaults)))
    /\ UNCHANGED <<now, config, power, user_settings, reminder, reminder_target,
                   defaults, deques, reminders, jobs, load, hist>>

\* the write of set_user_info is executed and the handler reacts
ConfigWrite ==
    /\ \E e \in DOMAIN handlers :
          /\ handlers[e].pc = "write"
          /\ user_settings' = Upsert(handlers[e].sender, KeyOf(handlers[e].cmd),
                                     handlers[e].arg)
          /\ handlers' = [handlers EXCEPT ![e].pc = "done"]
          /\ replies' = Put(replies, e, "reacted")
    /\ UNCHANGED <<now, config, power, reminder, reminder_target, defaults, cache,
                   deques, reminders, jobs, load, hist>>

\* the write of set_user_info raises: the exception leaves set_user_info and
\* the command handler, which has no handler for it
ConfigWriteFails ==
    /\ \E e \in DOMAIN handlers :
          /\ handlers[e].pc = "write"
          /\ handlers' = [handlers EXCEPT ![e].pc = "raised",
                                          ![e].error = "StorageFailure"]
    /\ UNCHANGED <<now, config, power, user_settings, reminder, reminder_target,
                   defaults, cache, deques, reminders, jobs, load, replies, hist>>

\* the configurations of the model: the base configuration, one with a
\* default price that is no category, one with an unknown default locale and
\* time zone and no default facilities
Configs ==
    {BaseConfig,
     [BaseConfig EXCEPT !.default_price = "student"],
     [BaseConfig EXCEPT !.default_locale = "xx", !.default_timezone = "Mars/Phobos",
                        !.default_facilities = <<>>]}

\* rows the user_settings table may hold at startup
StoredSettings ==
    {[locale |-> "de", timezone |-> "UTC", price |-> "INT", facilities |-> "poly"],
     [locale |-> None, timezone |-> None, price |-> None, facilities |-> None],
     [locale |-> "xx", timezone |-> "Mars/Phobos", price |-> "gold", facilities |-> ""]}

InitPrefs ==
    /\ now = 0
    /\ config \in Configs
    /\ power = [u \in Users |-> 0]
    /\ user_settings \in {EmptyDict} \cup {Put(EmptyDict, "u1", row) : row \in StoredSettings}
    /\ reminder = {}
    /\ reminder_target = {}
    /\ defaults = on_external_config_update(config)
    /\ cache = EmptyDict
    /\ deques = [d \in DequeIds |-> <<>>]
    /\ reminders = EmptyDict
    /\ jobs = {}
    /\ load = [LoadIdle EXCEPT !.pc = "returned"]
    /\ handlers = EmptyDict
    /\ replies = EmptyDict
    /\ hist = HistInit

NextPrefs ==
    \/ ConfigStart
    \/ UserInfoFetch
    \/ ConfigUserInfo
    \/ ConfigWrite
    \/ ConfigWriteFails

SpecPrefs == InitPrefs /\ [][NextPrefs]_vars

\* a UserInfo whose four settings are set and valid
ValidUserInfo(info) ==
    /\ info.locale # None /\ info.locale \in KnownLocales
    /\ info.timezone # None /\ info.timezone \in KnownTimezones
    /\ info.price # None /\ info.price \in {"int", "ext", "stud", "off", "INT"}
    /\ info.facilities # None

\* C9 as stated: every UserInfo in the cache has a set and valid locale,
\* time zone, price category and facility filter.
C9_CachedSettingsValid ==
    \A u \in DOMAIN cache : ValidUserInfo(cache[u])


\* ------------------------- db.py: subscriber rows and room migration
\* the DELETE matching the user of the redacted reaction instead of its id
remove_subscriber_by_user(subscribing_event) ==
    reminder_target' =
        {row \in reminder_target :
            \A gone \in reminder_target :
                gone.subscribing_event = subscribing_event => row.user_id # gone.user_id}

\* DELETE FROM reminder_target WHERE subscribing_event = $1
remove_subscriber(subscribing_event) ==
    reminder_target' =
        {row \in reminder_target : row.subscribing_event # subscribing_event}

\* UPDATE reminder SET room_id = $1 WHERE room_id = $2
update_room_id(old_id, new_id) ==
    reminder' = {IF row.room_id = old_id THEN [row EXCEPT !.room_id = new_id] ELSE row :
                    row \in reminder}

\* ------------------------------------ reminder.py: the Reminder methods
\* The methods of one Reminder are serialized, so each takes effect in one
\* step, at the call; the caller is suspended until the store has answered.

\* DELETE of every reminder_target row of a reminder
delete_subscribers(event_id) ==
    reminder_target' = {row \in reminder_target : row.event_id # event_id}

\* Reminder.cancel(): disarm the job, delete the row and the subscriber rows,
\* drop the registry entry; a second call finds nothing and changes nothing
Reminder_cancel(event_id) ==
    /\ jobs' = jobs \ {event_id}
    /\ delete_reminder(event_id)
    /\ delete_subscribers(event_id)
    /\ reminders' = Drop(reminders, event_id)

\* Reminder.add_subscriber(user_id, subscribing_event): record the mapping in
\* subscribed_users and insert the subscriber row
Reminder_add_subscriber(event_id, user_id, subscribing_event) ==
    /\ reminders' = [reminders EXCEPT
          ![event_id].subscribed_users = Put(@, subscribing_event, user_id)]
    /\ add_subscriber(event_id, user_id, subscribing_event)

\* Reminder.remove_subscriber(subscribing_event): drop the mapping, if any,
\* and delete the subscriber row
Reminder_remove_subscriber(event_id, subscribing_event) ==
    /\ reminders' = [reminders EXCEPT
          ![event_id].subscribed_users = Drop(@, subscribing_event)]
    /\ remove_subscriber(subscribing_event)


\* ------------------------------------------ bot.py: cancel_reminder
CancelIds == {"c1", "c2"}

\* the sender of each cancel command
CancelSender(c) == IF c = "c1" THEN "u1" ELSE "u2"

\* the messages a cancel command may reply to: the messages of the reminders
\* e1 and e2, whose content names the reminder, and a message without the
\* key "ch.ethz.phys.lunch"
ReplyTargets == {"m1", "m2", "m0"}

\* reminder_message.content["ch.ethz.phys.lunch"]["id"], None without the key
NamedReminder(m) ==
    IF m = "m1" THEN "e1" ELSE IF m = "m2" THEN "e2" ELSE None

\* self.reminders.items() yields the entries in insertion order
RegistryOrder == <<"e1", "e2">>

\* what the loop of cancel_reminder reads of a Reminder
Ref(event_id) ==
    [event_id |-> event_id, room_id |-> reminders[event_id].room_id,
     creator |-> reminders[event_id].creator]

RECURSIVE Refs(_)
Refs(ids) == IF ids = <<>> THEN <<>> ELSE <<Ref(Head(ids))>> \o Refs(Tail(ids))

\* the list built without the room filter
RoomReminders_unfiltered(room_id) ==
    Refs(SelectSeq(RegistryOrder, LAMBDA k : k \in DOMAIN reminders))

\* [v for k, v in self.reminders.items() if v.room_id == evt.room_id]
RoomReminders(room_id) ==
    Refs(SelectSeq(RegistryOrder,
                   LAMBDA k : k \in DOMAIN reminders /\ reminders[k].room_id = room_id))

\* reminder.creator == evt.sender or user_power >= self.admin_power_level
CancelAllowed(creator, sender, user_power) ==
    creator = sender \/ user_power >= config.admin_power_level

CancelHandler(sender, room_id, reply_to, pc, todo) ==
    [cmd |-> "cancel", sender |-> sender, room_id |-> room_id, reply_to |-> reply_to,
     pc |-> pc, todo |-> todo, error |-> None]

\* the cancel command arrives: as a reply it asks for the replied-to event,
\* else it lists the reminders of the room and asks for the power levels of
\* the first one's room
CancelCommand(ids) ==
    /\ \E c \in ids, room_id \in Rooms, reply_to \in {None} \cup ReplyTargets :
          /\ c \notin DOMAIN handlers
          /\ handlers' = Put(handlers, c,
                IF reply_to # None
                THEN CancelHandler(CancelSender(c), room_id, reply_to, "get_event", <<>>)
                ELSE CancelHandler(CancelSender(c), room_id, reply_to,
                                   IF RoomReminders(room_id) = <<>> THEN "react" ELSE "power",
                                   RoomReminders(room_id)))
    /\ UNCHANGED <<now, config, power, user_settings, reminder, reminder_target,
                   defaults, cache, deques, reminders, jobs, load, replies, hist>>

CancelStart == CancelCommand(CancelIds)

\* the replied-to event arrives: reply and return when it names no reminder,
\* else look the named id up in self.reminders (a KeyError when it is no key)
CancelGetEvent ==
    /\ \E c \in DOMAIN handlers :
          LET h == handlers[c]
              id == NamedReminder(h.reply_to)
          IN /\ h.cmd = "cancel"
             /\ h.pc = "get_event"
             /\ IF id = None
                THEN /\ handlers' = [handlers EXCEPT ![c].pc = "done"]
                     /\ replies' = Put(replies, c, "not a valid reminder event")
                ELSE IF id \notin DOMAIN reminders
                THEN /\ handlers' = [handlers EXCEPT ![c].pc = "raised",
                                                     ![c].error = "KeyError"]
                     /\ UNCHANGED replies
                ELSE /\ handlers' = [handlers EXCEPT ![c].pc = "power",
                                                     ![c].todo = <<Ref(id)>>]
                     /\ UNCHANGED replies
    /\ UNCHANGED <<now, config, power, user_settings, reminder, reminder_target,
                   defaults, cache, deques, reminders, jobs, load, hist>>

\* the power levels of the reminder's room arrive: cancel the reminder when
\* the sender created it or has the admin level there, else send the reply
CancelPower ==
    /\ \E c \in DOMAIN handlers :
          LET h == handlers[c]
              r == Head(h.todo)
              user_power == power[r.room_id][h.sender]
          IN /\ h.cmd = "cancel"
             /\ h.pc = "power"
             /\ IF CancelAllowed(r.creator, h.sender, user_power)
                THEN /\ Reminder_cancel(r.event_id)
                     /\ handlers' = [handlers EXCEPT ![c].pc = "cancel"]
                     /\ hist' = [hist EXCEPT
                           !.cancelled = @ \cup {r.event_id},
                           !.dropped = @ \cup {row.subscribing_event : row \in
                               {t \in reminder_target : t.event_id = r.event_id}}]
                     /\ UNCHANGED replies
                ELSE /\ handlers' = [handlers EXCEPT ![c].pc = "denied"]
                     /\ replies' = Put(replies, c, "power level required")
                     /\ UNCHANGED <<reminder, reminder_target, reminders, jobs, hist>>
    /\ UNCHANGED <<now, config, power, user_settings, defaults, cache, deques, load>>

\* cancel() or the reply returns: the loop goes on to the next reminder, or
\* ends and the reaction is sent
CancelNext ==
    /\ \E c \in DOMAIN handlers :
          /\ handlers[c].cmd = "cancel"
          /\ handlers[c].pc \in {"cancel", "denied"}
          /\ handlers' = [handlers EXCEPT
                ![c].todo = Tail(@),
                ![c].pc = IF Tail(handlers[c].todo) = <<>> THEN "react" ELSE "power"]
    /\ UNCHANGED <<now, config, power, user_settings, reminder, reminder_target,
                   defaults, cache, deques, reminders, jobs, load, replies, hist>>

\* the reaction is sent and the handler returns
CancelReact ==
    /\ \E c \in DOMAIN handlers :
          /\ handlers[c].cmd = "cancel"
          /\ handlers[c].pc = "react"
          /\ handlers' = [handlers EXCEPT ![c].pc = "done"]
    /\ UNCHANGED <<now, config, power, user_settings, reminder, reminder_target,
                   defaults, cache, deques, reminders, jobs, load, replies, hist>>


\* ------------------------------- bot.py: subscribe_react, redact, tombstone
\* the sender of each reaction event
ReactSenders(s) == IF s = "s1" THEN {"u1"} ELSE Users

\* a thumbs-up reaction arrives: when its target is a key of self.reminders
\* the handler calls add_subscriber of that Reminder and returns
SubscribeReact ==
    /\ \E s \in SubIds, target \in RemIds \cup {"m0"} : \E sender \in ReactSenders(s) :
          /\ s \notin DOMAIN handlers
          /\ handlers' = Put(handlers, s,
                [cmd |-> "react", sender |-> sender, target |-> target, pc |-> "done"])
          /\ IF target \in DOMAIN reminders
             THEN Reminder_add_subscriber(target, sender, s)
             ELSE UNCHANGED <<reminders, reminder_target>>
    /\ UNCHANGED <<now, config, power, user_settings, reminder, defaults, cache,
                   deques, jobs, load, replies, hist>>

\* the positions, from a position on, of the registry entries that hold a
\* reaction id in subscribed_users
Holders(r, from) ==
    {i \in from..Len(RegistryOrder) :
        /\ RegistryOrder[i] \in DOMAIN reminders
        /\ r \in DOMAIN reminders[RegistryOrder[i]].subscribed_users}

FirstHolder(r, from) == CHOOSE i \in Holders(r, from) : \A j \in Holders(r, from) : i <= j

RedactHandler(redacts, pc, pos, size) ==
    [cmd |-> "redact", redacts |-> redacts, pc |-> pc, pos |-> pos, size |-> size,
     error |-> None]

\* the loop of redact from a position on: call remove_subscriber of the next
\* Reminder that holds the id, or end when there is none
RedactScan(x, r, from, size) ==
    IF Holders(r, from) = {}
    THEN /\ handlers' = Put(handlers, x, RedactHandler(r, "done", 0, 0))
         /\ UNCHANGED <<reminders, reminder_target>>
    ELSE /\ handlers' = Put(handlers, x,
                            RedactHandler(r, "remove", FirstHolder(r, from), size))
         /\ Reminder_remove_subscriber(RegistryOrder[FirstHolder(r, from)], r)

RedactIds == {"x1", "x2"}

\* a redaction event arrives and the loop over self.reminders.items() starts
RedactStart ==
    /\ \E x \in RedactIds, r \in SubIds :
          /\ x \notin DOMAIN handlers
          /\ RedactScan(x, r, 1, Cardinality(DOMAIN reminders))
    /\ UNCHANGED <<now, config, power, user_settings, reminder, defaults, cache,
                   deques, jobs, load, replies, hist>>

\* remove_subscriber returns and the loop asks the dict iterator for the next
\* item: a RuntimeError when the dict changed size, else the loop goes on
RedactNext ==
    /\ \E x \in RedactIds :
          /\ x \in DOMAIN handlers
          /\ handlers[x].pc = "remove"
          /\ IF Cardinality(DOMAIN reminders) # handlers[x].size
             THEN /\ handlers' = [handlers EXCEPT ![x].pc = "raised",
                                                  ![x].error = "RuntimeError"]
                  /\ UNCHANGED <<reminders, reminder_target>>
             ELSE RedactScan(x, handlers[x].redacts, handlers[x].pos + 1, handlers[x].size)
    /\ UNCHANGED <<now, config, power, user_settings, reminder, defaults, cache,
                   deques, jobs, load, replies, hist>>

\* a tombstone event arrives: with a replacement room the rows of the old
\* room are rewritten
Tombstone ==
    /\ \E room_id \in Rooms, replacement_room \in {None} \cup Rooms :
          /\ replacement_room # room_id
          /\ IF Truthy(replacement_room)
             THEN update_room_id(room_id, replacement_room)
             ELSE UNCHANGED reminder
          /\ hist' = [hist EXCEPT !.tomb =
                [old |-> room_id, new |-> replacement_room,
                 ids |-> {k \in DOMAIN reminders : reminders[k].room_id = room_id}]]
    /\ UNCHANGED <<now, config, power, user_settings, reminder_target, defaults,
                   cache, deques, reminders, jobs, load, handlers, replies>>

\* ------------------------------------- the life of registered reminders
\* a reminder as remind leaves it: registered, stored, its job armed
Registered(event_id, room_id, creator) ==
    Reminder(event_id, room_id, "poly", NoTime, None, GoodCron, FALSE, EmptyDict,
             creator, ConfirmationEvent(event_id))

StoredRow(r) == [ReminderRow(r) EXCEPT !.confirmation_event = r.confirmation_event]

\* the power levels of the rooms: u2 is no admin anywhere
RoomPowerLevels ==
    {p \in [Rooms -> [Users -> PowerLevels]] : \A room_id \in Rooms : p[room_id]["u2"] = 0}

InitLife ==
    /\ now = 0
    /\ config = BaseConfig
    /\ power \in RoomPowerLevels
    /\ user_settings = EmptyDict
    /\ \E room_id \in Rooms :
          /\ reminders = [e \in RemIds |->
                IF e = "e1" THEN Registered("e1", "r1", "u1")
                ELSE Registered("e2", room_id, "u2")]
          /\ reminder = {StoredRow(Registered("e1", "r1", "u1")),
                         StoredRow(Registered("e2", room_id, "u2"))}
    /\ reminder_target = {}
    /\ defaults = on_external_config_update(config)
    /\ cache = EmptyDict
    /\ deques = [d \in DequeIds |-> <<>>]
    /\ jobs = RemIds
    /\ load = [LoadIdle EXCEPT !.pc = "returned"]
    /\ handlers = EmptyDict
    /\ replies = EmptyDict
    /\ hist = HistInit

\* the cancel commands and the room migration
NextLife ==
    \/ CancelStart
    \/ CancelGetEvent
    \/ CancelPower
    \/ CancelNext
    \/ CancelReact
    \/ Tombstone

SpecLife == InitLife /\ [][NextLife]_vars

\* the reactions and redactions, and one cancel command
CancelOne == CancelCommand({"c1"})

NextSubs ==
    \/ SubscribeReact
    \/ RedactStart
    \/ RedactNext
    \/ CancelOne
    \/ CancelGetEvent
    \/ CancelPower
    \/ CancelNext
    \/ CancelReact

SpecSubs == InitLife /\ [][NextSubs]_vars


\* ------------------------------------------- properties of cancel
\* a step takes away the job, the row or the registry entry of a reminder
Loses(id) ==
    \/ id \in jobs /\ id \notin jobs'
    \/ id \in StoredIds(reminder) /\ id \notin StoredIds(reminder')
    \/ id \in DOMAIN reminders /\ id \notin DOMAIN reminders'

\* the reminders a cancel command considers: the one its reply target names,
\* or without a reply target the registered reminders of the command's room
Considered(h, id) ==
    IF h.reply_to # None
    THEN NamedReminder(h.reply_to) = id
    ELSE id \in DOMAIN reminders /\ reminders[id].room_id = h.room_id

\* the sender created the reminder or has the admin level in its room
Authorised(sender, id) ==
    \/ reminders[id].creator = sender
    \/ power[reminders[id].room_id][sender] >= admin_power_level

\* the ids of a list of reminders
RefIds(todo) == {todo[i].event_id : i \in DOMAIN todo}

\* C11: a reminder loses its job, its row or its registry entry only in the
\* step of a cancel command that considers it and whose sender created it or
\* has the admin level in the reminder's room; a cancel command without a
\* reply target lists exactly the registered reminders of its room, and one
\* sent as a reply lists exactly the reminder its reply target names.
C11_CancelOnlyAuthorised ==
    [][/\ \A id \in RemIds :
             Loses(id) =>
                \E c \in DOMAIN handlers :
                    /\ handlers[c].cmd = "cancel"
                    /\ handlers[c].pc = "power"
                    /\ handlers'[c].pc = "cancel"
                    /\ Head(handlers[c].todo).event_id = id
                    /\ Considered(handlers[c], id)
                    /\ Authorised(handlers[c].sender, id)
       /\ \A c \in CancelIds :
             (c \in DOMAIN handlers' /\ handlers'[c].pc = "power"
                  /\ (c \notin DOMAIN handlers \/ handlers[c].pc = "get_event"))
             => RefIds(handlers'[c].todo) =
                    {id \in DOMAIN reminders : Considered(handlers'[c], id)}]_vars

\* a denied cancel next to a cancel by an admin who is not the creator
C11_Witness ==
    /\ \E c \in DOMAIN handlers :
          /\ handlers[c].cmd = "cancel"
          /\ handlers[c].pc = "denied"
          /\ Head(handlers[c].todo).event_id \in DOMAIN reminders \cap jobs
          /\ Head(handlers[c].todo).event_id \in StoredIds(reminder)
    /\ "e2" \in hist.cancelled
    /\ \E c \in DOMAIN handlers :
          /\ handlers[c].cmd = "cancel"
          /\ handlers[c].sender = "u1"
          /\ handlers[c].pc = "cancel"
          /\ Head(handlers[c].todo).event_id = "e2"


\* C12 as stated: a cancel command for a reminder that was cancelled before
\* (room-wide, as a reply to the reminder's message, or while the first
\* cancel is in flight) ends without an error, and a cancelled reminder has
\* no job, no registry entry and no row.
C12_SecondCancelSafe ==
    /\ \A c \in DOMAIN handlers :
          handlers[c].cmd = "cancel" => handlers[c].error = None
    /\ \A id \in hist.cancelled :
          /\ id \notin jobs
          /\ id \notin DOMAIN reminders
          /\ id \notin StoredIds(reminder)


NoHandlerInFlight ==
    \A e \in DOMAIN handlers : handlers[e].pc \in {"done", "raised"}

\* C14 as stated: when store_reminder raised in a remind command, no job is
\* armed for that reminder and it is not in the registry; a job is armed
\* only for a reminder whose row is stored or is being stored.
C14_FailedPersistRolledBack ==
    /\ \A e \in DOMAIN handlers :
          (handlers[e].cmd = "remind" /\ handlers[e].error = "StorageFailure")
          => e \notin jobs /\ e \notin DOMAIN reminders
    /\ \A e \in jobs :
          \/ e \in StoredIds(reminder)
          \/ e \in DOMAIN handlers /\ handlers[e].pc = "store"

\* C15 as stated: whenever no handler is in flight, the ids of the registry
\* are the ids of the reminder table.
C15_RegistryMatchesStore ==
    NoHandlerInFlight => DOMAIN reminders = StoredIds(reminder)


\* ------------------------------------- properties of room migration
\* the stored row of a reminder has this room id
RowRoomIs(rows, id, room_id) ==
    \A row \in rows : row.event_id = id => row.room_id = room_id

\* C16 as stated: the step that handles a tombstone with a replacement room
\* gives every registered reminder of the old room the replacement room id,
\* in its row and in its registry entry, and leaves the reminders of other
\* rooms as they were; a tombstone without a replacement changes nothing.
C16_TombstoneMovesReminders ==
    [][hist'.tomb # hist.tomb =>
          IF hist'.tomb.new = None
          THEN UNCHANGED <<reminder, reminders>>
          ELSE \A id \in DOMAIN reminders :
                  IF reminders[id].room_id = hist'.tomb.old
                  THEN /\ id \in DOMAIN reminders'
                       /\ reminders'[id].room_id = hist'.tomb.new
                       /\ RowRoomIs(reminder', id, hist'.tomb.new)
                  ELSE /\ id \in DOMAIN reminders'
                       /\ reminders'[id] = reminders[id]
                       /\ {row \in reminder' : row.event_id = id}
                              = {row \in reminder : row.event_id = id}]_vars


\* ------------------------------------- properties of the subscribers
\* every mapping and every subscriber row of the state is still there after
\* the step
MappingsKept ==
    /\ \A id \in DOMAIN reminders :
          /\ id \in DOMAIN reminders'
          /\ \A k \in DOMAIN reminders[id].subscribed_users :
                /\ k \in DOMAIN reminders'[id].subscribed_users
                /\ reminders'[id].subscribed_users[k] = reminders[id].subscribed_users[k]
    /\ reminder_target \subseteq reminder_target'

\* C17: the step that handles a thumbs-up reaction s of a sender on a target
\* that is a key of the registry records s -> sender in that reminder's
\* subscribed_users and as a subscriber row, and keeps every mapping and row
\* there was; on any other target it changes neither the registry nor the
\* store nor the jobs.
C17_ReactionSubscribes ==
    [][\A s \in SubIds :
          (s \notin DOMAIN handlers /\ s \in DOMAIN handlers')
          => LET h == handlers'[s] IN
             IF h.target \in DOMAIN reminders
             THEN /\ s \in DOMAIN reminders'[h.target].subscribed_users
                  /\ reminders'[h.target].subscribed_users[s] = h.sender
                  /\ [event_id |-> h.target, user_id |-> h.sender,
                      subscribing_event |-> s] \in reminder_target'
                  /\ MappingsKept
                  /\ UNCHANGED <<reminder, jobs>>
             ELSE UNCHANGED <<reminders, reminder, reminder_target, jobs>>]_vars

\* one user subscribed to one reminder under two reaction ids, and both
\* mappings and both rows are there
C17_Witness ==
    \E id \in DOMAIN reminders :
        /\ DOMAIN reminders[id].subscribed_users = {"s1", "s2"}
        /\ reminders[id].subscribed_users["s1"] = reminders[id].subscribed_users["s2"]
        /\ Cardinality({t \in reminder_target : t.event_id = id}) = 2


\* no registered reminder holds the reaction id
HeldByNone(r) ==
    \A id \in DOMAIN reminders : r \notin DOMAIN reminders[id].subscribed_users

\* C18: the step in which a redaction of reaction id r is handled removes
\* the mapping for r, and no other, from the reminder that holds it and
\* deletes the subscriber row of r, and no other; when no reminder holds r
\* (r was removed before or was never recorded) the handler ends in that
\* step without an error and the registry and the store stay as they were;
\* the rest of the handler changes nothing.
C18_RedactionRemovesOnce ==
    [][\A x \in RedactIds :
          /\ (x \notin DOMAIN handlers /\ x \in DOMAIN handlers')
             => LET r == handlers'[x].redacts IN
                /\ DOMAIN reminders' = DOMAIN reminders
                /\ \A id \in DOMAIN reminders :
                      reminders'[id] =
                          [reminders[id] EXCEPT !.subscribed_users = Drop(@, r)]
                /\ reminder_target' =
                      {t \in reminder_target : t.subscribing_event # r}
                /\ UNCHANGED <<reminder, jobs>>
                /\ HeldByNone(r)
                   => /\ handlers'[x].pc = "done"
                      /\ handlers'[x].error = None
                      /\ UNCHANGED <<reminders, reminder_target>>
          /\ (x \in DOMAIN handlers /\ handlers'[x] # handlers[x])
             => UNCHANGED <<reminders, reminder_target, reminder, jobs>>]_vars

\* one reaction id was redacted twice: its mapping and row are gone, the
\* other mapping of the same reminder and its row are still there
C18_Witness ==
    \E r \in SubIds : \E s \in SubIds \ {r} :
        /\ \A x \in RedactIds :
              /\ x \in DOMAIN handlers
              /\ handlers[x].pc = "done"
              /\ handlers[x].redacts = r
        /\ {r, s} \subseteq DOMAIN handlers
        /\ handlers[r].target \in DOMAIN reminders
        /\ handlers[s].target = handlers[r].target
        /\ DOMAIN reminders[handlers[r].target].subscribed_users = {s}
        /\ {t.subscribing_event : t \in reminder_target} = {s}


\* ------------------------------------ properties of the trigger variants
\* the trigger variants a Reminder has populated
VariantsOf(r) == Variants(r.start_time, r.recur_every, r.cron_tab)

\* the trigger variants the columns of a stored row populate
RowVariants(row) ==
    Variants([set |-> row.start_time.kind # "null", t |-> row.start_time.t],
             row.recur_every, row.cron_tab)

MinutesPerDay == 24 * 60
MinutesPerWeek == 7 * MinutesPerDay
CronWeeks == 2

\* the day of the week of an instant, Monday = 0, and its minute of the day
Weekday(t) == (t \div MinutesPerDay) % 7
TimeOfDay(t) == t % MinutesPerDay
Instant(day, hour, minute) == day * MinutesPerDay + hour * 60 + minute

\* the "hh:mm" arguments and the days arguments a sender gives
TimeArgs == {<<9, 0>>, <<0, 0>>, <<23, 59>>, <<9, 1>>}
DaysArgs == {None, "sat,sun", "mon", "sun"}

\* the instants at which a command arrives
CronNows == {Instant(day, hour, minute) : day \in 0..6, hour \in {0, 9, 10, 23}, minute \in {0, 1, 59}}

\* the f-string with hour and minute in the other order
CronText_swapped(time, days) ==
    <<time[1], time[2], "*", "*", IF ~Truthy(days) THEN "mon-fri" ELSE days>>

\* hour, minute = tuple(time.split(':')); days = "mon-fri" if not days;
\* cron = f"{minute} {hour} * * {days}", as its five fields
CronText(time, days) ==
    <<time[2], time[1], "*", "*", IF ~Truthy(days) THEN "mon-fri" ELSE days>>

\* the weekdays a day-of-week field names
DaysOf(field) ==
    IF field = "mon-fri" THEN 0..4
    ELSE IF field = "sat,sun" THEN {5, 6}
    ELSE IF field = "mon" THEN {0}
    ELSE {6}

\* the next run of a cron trigger after an instant: the first of the coming
\* days, today included, that is one of the field's weekdays and on which
\* hour:minute is after the instant
NextFire(t, cron) ==
    LET candidates == {Instant(t \div MinutesPerDay + d, cron[2], cron[1]) : d \in 0..7}
        valid == {c \in candidates : c > t /\ Weekday(c) \in DaysOf(cron[5])}
    IN CHOOSE c \in valid : \A other \in valid : c <= other

CronHandler(time, days, at) ==
    [cmd |-> "remind", time |-> time, days |-> days, cron |-> CronText(time, days),
     at |-> at, next_run |-> NextFire(at, CronText(time, days))]

\* remind builds the cron text and the Reminder, whose job is armed for the
\* next run
CronRemind ==
    /\ \E time \in TimeArgs, days \in DaysArgs :
          /\ "e1" \notin DOMAIN handlers
          /\ handlers' = Put(handlers, "e1", CronHandler(time, days, now))
    /\ jobs' = jobs \cup {"e1"}
    /\ UNCHANGED <<now, config, power, user_settings, reminder, reminder_target,
                   defaults, cache, deques, reminders, load, replies, hist>>

\* the job runs at its instant and is armed for the next run after it
CronFire ==
    /\ "e1" \in DOMAIN handlers
    /\ handlers["e1"].next_run < CronWeeks * MinutesPerWeek
    /\ now' = handlers["e1"].next_run
    /\ handlers' = [handlers EXCEPT
          !["e1"].at = handlers["e1"].next_run,
          !["e1"].next_run = NextFire(handlers["e1"].next_run, handlers["e1"].cron)]
    /\ UNCHANGED <<config, power, user_settings, reminder, reminder_target,
                   defaults, cache, deques, reminders, jobs, load, replies, hist>>

InitCron ==
    /\ now \in CronNows
    /\ config = BaseConfig
    /\ power = [u \in Users |-> admin_power_level]
    /\ user_settings = EmptyDict
    /\ reminder = {}
    /\ reminder_target = {}
    /\ defaults = on_external_config_update(config)
    /\ cache = EmptyDict
    /\ deques = [d \in DequeIds |-> <<>>]
    /\ reminders = EmptyDict
    /\ jobs = {}
    /\ load = [LoadIdle EXCEPT !.pc = "returned"]
    /\ handlers = EmptyDict
    /\ replies = EmptyDict
    /\ hist = HistInit

NextCron ==
    \/ CronRemind
    \/ CronFire

SpecCron == InitCron /\ [][NextCron]_vars

\* an instant is an occurrence of hour:minute on one of the weekdays
Occurs(t, time, days) ==
    /\ Weekday(t) \in (IF days = None THEN 0..4 ELSE DaysOf(days))
    /\ TimeOfDay(t) = time[1] * 60 + time[2]

PeriodSeconds == 1

\* the period a recur_every text stands for, in ticks
Period(recur_every) == PeriodSeconds * TicksPerSecond

\* the UPDATE writing the time of the call instead of its argument
reschedule_reminder_at_call(start_time, event_id) ==
    reminder' = {IF row.event_id = event_id
                 THEN [row EXCEPT !.start_time = isoformat(replace_microsecond0(At(now)))]
                 ELSE row : row \in reminder}

\* UPDATE reminder SET start_time=$1 WHERE event_id=$2, with
\* start_time.replace(microsecond=0).isoformat() as $1
reschedule_reminder(start_time, event_id) ==
    reminder' = {IF row.event_id = event_id
                 THEN [row EXCEPT !.start_time = isoformat(replace_microsecond0(start_time))]
                 ELSE row : row \in reminder}

FireIds == {"f1", "f2"}

\* the run of fire() of each reminder
FiredReminder(f) == IF f = "f1" THEN "e1" ELSE "e2"

FireHandler(id, T, recur_every, pc) ==
    [cmd |-> "fire", id |-> id, T |-> T, recur_every |-> recur_every, pc |-> pc,
     next_time |-> NoTime, error |-> None]

\* a fire that re-arms whether or not the reminder was cancelled meanwhile
FireRearms_always(id) == TRUE

\* fire() re-arms a recurring reminder unless it was cancelled while the
\* notification was dispatched
FireRearms(id) == id \in DOMAIN reminders

\* the timer of an armed reminder goes off at or after the armed instant:
\* the reminder is Firing and the notification is handed to the transport
FireStart ==
    /\ \E f \in FireIds :
          LET id == FiredReminder(f) IN
          /\ f \in DOMAIN handlers => handlers[f].pc = "done"
          /\ id \in jobs
          /\ id \in DOMAIN reminders
          /\ reminders[id].start_time.set
          /\ reminders[id].start_time.t <= now
          /\ jobs' = jobs \ {id}
          /\ handlers' = Put(handlers, f,
                FireHandler(id, reminders[id].start_time.t, reminders[id].recur_every, "send"))
    /\ UNCHANGED <<now, config, power, user_settings, reminder, reminder_target,
                   defaults, cache, deques, reminders, load, replies, hist>>

\* the notification is sent: a one-off reminder ends as cancel() ends it, a
\* recurring one is armed for the instant that fired plus its period and
\* reschedule_reminder is called with that instant
FireSent ==
    /\ \E f \in DOMAIN handlers :
          LET h == handlers[f]
              next_time == At(h.T + Period(h.recur_every))
          IN /\ h.cmd = "fire"
             /\ h.pc = "send"
             /\ IF ~Truthy(h.recur_every)
                THEN /\ Reminder_cancel(h.id)
                     /\ handlers' = [handlers EXCEPT ![f].pc = "done"]
                ELSE IF ~FireRearms(h.id)
                THEN /\ handlers' = [handlers EXCEPT ![f].pc = "done"]
                     /\ UNCHANGED <<reminder, reminder_target, reminders, jobs>>
                ELSE /\ reminders' = IF h.id \in DOMAIN reminders
                                     THEN [reminders EXCEPT ![h.id].start_time = next_time]
                                     ELSE reminders
                     /\ jobs' = jobs \cup {h.id}
                     /\ handlers' = [handlers EXCEPT ![f].pc = "reschedule",
                                                     ![f].next_time = next_time]
                     /\ UNCHANGED <<reminder, reminder_target>>
    /\ UNCHANGED <<now, config, power, user_settings, defaults, cache, deques, load,
                   replies, hist>>

\* the UPDATE of reschedule_reminder is executed and fire() returns
FireReschedule ==
    /\ \E f \in DOMAIN handlers :
          /\ handlers[f].cmd = "fire"
          /\ handlers[f].pc = "reschedule"
          /\ reschedule_reminder(handlers[f].next_time, handlers[f].id)
          /\ handlers' = [handlers EXCEPT ![f].pc = "done"]
    /\ UNCHANGED <<now, config, power, user_settings, reminder_target, defaults,
                   cache, deques, reminders, jobs, load, replies, hist>>

\* a reminder as load_all builds it from the row store_reminder wrote for a
\* reminder due at t: an interval reminder, or a one-off without a period
Loaded(event_id, room_id, creator, t, recur_every) ==
    LET row == StoredRow(Reminder(event_id, room_id, "poly", At(t), recur_every, None,
                                  FALSE, EmptyDict, creator, ConfirmationEvent(event_id)))
    IN Reminder(row.event_id, row.room_id, row.message, fromisoformat(row.start_time),
                row.recur_every, row.cron_tab, row.is_agenda, EmptyDict, row.creator,
                row.confirmation_event)

InitFire ==
    /\ now = 0
    /\ config = BaseConfig
    /\ power \in RoomPowerLevels
    /\ user_settings = EmptyDict
    /\ \E t1, t2 \in Times : \E recur_every \in {"1 day", None} :
          /\ reminders = [e \in RemIds |->
                IF e = "e1" THEN Loaded("e1", "r1", "u1", t1, "1 day")
                ELSE Loaded("e2", "r1", "u2", t2, recur_every)]
          /\ reminder = {StoredRow(reminders[e]) : e \in RemIds}
    /\ reminder_target = {}
    /\ defaults = on_external_config_update(config)
    /\ cache = EmptyDict
    /\ deques = [d \in DequeIds |-> <<>>]
    /\ jobs = RemIds
    /\ load = [LoadIdle EXCEPT !.pc = "returned"]
    /\ handlers = EmptyDict
    /\ replies = EmptyDict
    /\ hist = HistInit

\* the timers going off next to one cancel command
NextFiring ==
    \/ Tick
    \/ FireStart
    \/ FireSent
    \/ FireReschedule
    \/ CancelOne
    \/ CancelGetEvent
    \/ CancelPower
    \/ CancelNext
    \/ CancelReact

SpecFire == InitFire /\ [][NextFiring]_vars


\* ------------------------------------------------ properties of fire
\* the fire() of a reminder is between its start and its return
Firing(id) ==
    \E f \in DOMAIN handlers :
        /\ handlers[f].cmd = "fire"
        /\ handlers[f].id = id
        /\ handlers[f].pc # "done"

\* C21: the armed instant of an interval reminder changes only by exactly
\* its period, whatever the clock shows when fire() runs, and whenever no
\* fire() of a registered interval reminder is in flight its row holds the
\* armed instant as start_time.
C21_IntervalAddsPeriod ==
    [][\A id \in RemIds :
          /\ (id \in DOMAIN reminders /\ id \in DOMAIN reminders'
                /\ reminders'[id].start_time # reminders[id].start_time)
             => /\ Truthy(reminders[id].recur_every)
                /\ reminders'[id].start_time =
                      At(reminders[id].start_time.t + Period(reminders[id].recur_every))
                /\ id \in jobs'
          /\ (id \in DOMAIN reminders' /\ Truthy(reminders'[id].recur_every)
                /\ ~Firing(id)')
             => \A row \in reminder' :
                   row.event_id = id => row.start_time = isoformat(reminders'[id].start_time)]_vars

\* a fire() that returned after the next instant had passed: the reminder is
\* armed for, and its row holds, the instant that fired plus the period
C21_Witness ==
    \E f \in DOMAIN handlers :
        /\ handlers[f].cmd = "fire"
        /\ handlers[f].pc = "done"
        /\ handlers[f].next_time = At(handlers[f].T + Period("1 day"))
        /\ now > handlers[f].next_time.t
        /\ handlers[f].id \in jobs
        /\ reminders[handlers[f].id].start_time = handlers[f].next_time
        /\ \E row \in reminder :
              /\ row.event_id = handlers[f].id
              /\ row.start_time = isoformat(handlers[f].next_time)


IsSet(h) ==
    /\ h.cmd \in {"config_lang", "config_price", "config_canteen"}
    /\ h.arg # ""
    /\ Accepted(h.cmd, h.arg)

\* two handlers concern the same setting of the same user
SameSetting(h, g) == h.sender = g.sender /\ KeyOf(h.cmd) = KeyOf(g.cmd)

\* C23 as stated: once the one set_user_info(u, key, v) of a run has
\* completed, the cache entry of u holds v for that key, whatever
\* get_user_info calls for u were in flight meanwhile.
C23_SetThenGet ==
    \A w \in DOMAIN handlers :
        (/\ IsSet(handlers[w])
         /\ handlers[w].pc = "done"
         /\ \A e \in DOMAIN handlers \ {w} :
               ~(IsSet(handlers[e]) /\ SameSetting(handlers[e], handlers[w])))
        => /\ handlers[w].sender \in DOMAIN cache
           /\ cache[handlers[w].sender][KeyOf(handlers[w].cmd)] = handlers[w].arg

\* C24 as stated: when the write of the only command of a user has failed,
\* the user's cache entry holds for that setting what get_user_info makes of
\* the stored row.
C24_FailedWriteLeavesCache ==
    \A w \in DOMAIN handlers :
        (/\ IsSet(handlers[w])
         /\ handlers[w].error = "StorageFailure"
         /\ \A e \in DOMAIN handlers \ {w} : handlers[e].sender # handlers[w].sender)
        => /\ handlers[w].sender \in DOMAIN cache
           /\ cache[handlers[w].sender][KeyOf(handlers[w].cmd)] =
                 LoadedUserInfo(FetchUserRow(handlers[w].sender),
                                defaults)[KeyOf(handlers[w].cmd)]


\* ------------------------- reactions and redactions next to a creation
\* reminder e1 is registered and stored, as remind leaves it; e2 is created
\* by a remind command
RemindOne == RemindCommand({"e2"})

InitReact ==
    /\ now = 0
    /\ config = BaseConfig
    /\ power \in [Users -> PowerLevels]
    /\ user_settings = EmptyDict
    /\ reminders = Put(EmptyDict, "e1", Registered("e1", "r1", "u1"))
    /\ reminder = {StoredRow(Registered("e1", "r1", "u1"))}
    /\ reminder_target = {}
    /\ defaults = on_external_config_update(config)
    /\ cache = EmptyDict
    /\ deques = [d \in DequeIds |-> <<>>]
    /\ jobs = {"e1"}
    /\ load = [LoadIdle EXCEPT !.pc = "returned"]
    /\ handlers = EmptyDict
    /\ replies = EmptyDict
    /\ hist = HistInit

NextReact ==
    \/ RemindOne
    \/ RemindPower
    \/ UserInfoFetch
    \/ RemindUserInfo
    \/ RemindStore
    \/ RemindConfirm
    \/ RemindRegister
    \/ SubscribeReact
    \/ RedactStart
    \/ RedactNext

SpecReact == InitReact /\ [][NextReact]_vars

\* C25 as stated: no run of the redaction handler ends with an error, also
\* when a remind command adds a registry entry while the handler is suspended
\* in remove_subscriber.
C25_RedactCompletes ==
    \A x \in RedactIds :
        x \in DOMAIN handlers => handlers[x].error = None

\* C26 as stated: a thumbs-up reaction delivered while the row of its target
\* is in the reminder table is recorded as a subscriber row of that reminder
\* in the step that handles it.
C26_ReactionAfterPersistRecorded ==
    [][\A s \in SubIds :
          (/\ s \notin DOMAIN handlers
           /\ s \in DOMAIN handlers'
           /\ handlers'[s].target \in StoredIds(reminder))
          => \E row \in reminder_target' :
                /\ row.event_id = handlers'[s].target
                /\ row.subscribing_event = s
                /\ row.user_id = handlers'[s].sender]_vars


\* -------------------------------- util.py: pluralize, format_time, parse_date
\* timedelta(days=1), in ticks
TicksPerDay == 24 * 60 * 60 * TicksPerSecond

\* timedelta(days=7)
RelativeLimit == 7 * TicksPerDay

\* every count rendered with the plural unit name
pluralize_plural(val, unit) == [val |-> val, unit |-> unit, plural |-> TRUE]

\* pluralize(val, unit): f"{val} {unit}" when val == 1, else f"{val} {unit}s"
pluralize(val, unit) == [val |-> val, unit |-> unit, plural |-> val # 1]

\* the text format_time returns: the relative form "in " + parts joined by
\* " and ", or the joined parts + " ago"; else the strftime text of the
\* instant in the user's time zone
Relative(prefix, parts, suffix) ==
    [kind |-> "relative", prefix |-> prefix, parts |-> parts, suffix |-> suffix,
     time |-> NoTime, timezone |-> None]

Absolute(time, timezone) ==
    [kind |-> "absolute", prefix |-> "", parts |-> <<>>, suffix |-> "",
     time |-> time, timezone |-> timezone]

\* format_time(time, user_info) read at the clock now
format_time(time, user_info) ==
    LET clock == replace_microsecond0(At(now))
        delta == IF time.t >= clock.t THEN time.t - clock.t ELSE clock.t - time.t
        delta_days == delta \div TicksPerDay
        delta_seconds == (delta % TicksPerDay) \div TicksPerSecond
        \* hours, seconds = divmod(delta.seconds, 60)
        hours0 == delta_seconds \div 60
        seconds == delta_seconds % 60
        \* hours, minutes = divmod(hours, 60)
        hours == hours0 \div 60
        minutes == hours0 % 60
        parts == (IF delta_days > 0 THEN <<pluralize(delta_days, "day")>> ELSE <<>>)
                 \o (IF hours > 0 THEN <<pluralize(hours, "hour")>> ELSE <<>>)
                 \o (IF minutes > 0 THEN <<pluralize(minutes, "minute")>> ELSE <<>>)
                 \o (IF seconds > 0 THEN <<pluralize(seconds, "second")>> ELSE <<>>)
        \* parts[0:2]
        first_two == SubSeq(parts, 1, IF Len(parts) < 2 THEN Len(parts) ELSE 2)
    IN IF delta <= RelativeLimit
       THEN IF time.t > clock.t
            THEN Relative("in ", first_two, "")
            ELSE Relative("", first_two, " ago")
       ELSE Absolute(time, user_info.timezone)

\* the end of parse_date, from the datetime dateparser extracted (None when
\* it found no date): the error raised, or the instant returned
parse_date(date, user_info) ==
    IF ~date.set
    THEN [error |-> "Unable to extract date from string", date |-> NoTime,
          message |-> Relative("", <<>>, "")]
    ELSE LET rounded == replace_microsecond0(date)
         IN IF rounded.t < now
            THEN [error |-> "is in the past", date |-> NoTime,
                  message |-> format_time(rounded, user_info)]
            ELSE [error |-> None, date |-> rounded, message |-> Relative("", <<>>, "")]

\* a duration of d days, h hours, m minutes, s seconds and us ticks
Offset(d, h, m, s, us) == (((d * 24 + h) * 60 + m) * 60 + s) * TicksPerSecond + us

\* the distances from the clock format_time is called with
Offsets ==
    {Offset(d, h, m, s, us) :
        d \in {0, 1, 2, 7, 8}, h \in {0, 1, 2, 23}, m \in {0, 1, 15, 59}, s \in {0, 1, 59},
        us \in {0, 1}}

\* the users' settings format_time and parse_date are called with
TimeUserInfos ==
    {UserInfo("en", "Europe/Zurich", "int", "poly"), UserInfo("de", "UTC", "int", "poly")}

TimeHandler(cmd, time, user_info) ==
    [cmd |-> cmd, time |-> time, user_info |-> user_info, pc |-> "done", error |-> None]

\* format_time is called with an instant before or after the clock
FormatTime ==
    /\ \E offset \in Offsets, sign \in {1, -1}, user_info \in TimeUserInfos :
          LET time == At(replace_microsecond0(At(now)).t + sign * offset) IN
          /\ "t1" \notin DOMAIN handlers
          /\ handlers' = Put(handlers, "t1", TimeHandler("format_time", time, user_info))
          /\ replies' = Put(replies, "t1", format_time(time, user_info))
    /\ UNCHANGED <<now, config, power, user_settings, reminder, reminder_target,
                   defaults, cache, deques, reminders, jobs, load, hist>>

\* what dateparser may extract: nothing, or an instant around the clock
ParsedDates ==
    {NoTime} \cup {At(now + k) : k \in (0 - 2 * TicksPerSecond)..(2 * TicksPerSecond)}

\* parse_date is called and dateparser has extracted a datetime, or none
ParseDate ==
    /\ \E date \in ParsedDates, user_info \in TimeUserInfos :
          LET r == parse_date(date, user_info) IN
          /\ "p1" \notin DOMAIN handlers
          /\ handlers' = Put(handlers, "p1",
                [TimeHandler("parse_date", date, user_info) EXCEPT
                    !.pc = IF r.error = None THEN "done" ELSE "raised",
                    !.error = r.error])
          /\ replies' = Put(replies, "p1", r)
    /\ UNCHANGED <<now, config, power, user_settings, reminder, reminder_target,
                   defaults, cache, deques, reminders, jobs, load, hist>>

\* the clock reads a whole second or one with microseconds, eight days after
\* the origin
InitTime ==
    /\ now \in {8 * TicksPerDay, 8 * TicksPerDay + 1}
    /\ config = BaseConfig
    /\ power = [u \in Users |-> 0]
    /\ user_settings = EmptyDict
    /\ reminder = {}
    /\ reminder_target = {}
    /\ defaults = on_external_config_update(config)
    /\ cache = EmptyDict
    /\ deques = [d \in DequeIds |-> <<>>]
    /\ reminders = EmptyDict
    /\ jobs = {}
    /\ load = [LoadIdle EXCEPT !.pc = "returned"]
    /\ handlers = EmptyDict
    /\ replies = EmptyDict
    /\ hist = HistInit

NextTime ==
    \/ FormatTime
    \/ ParseDate

SpecTime == InitTime /\ [][NextTime]_vars


\* -------------------------------- properties of format_time and parse_date
Units == <<"day", "hour", "minute", "second">>

Rank(unit) == CHOOSE i \in DOMAIN Units : Units[i] = unit

\* the count of a unit in a duration of delta ticks
UnitCount(delta, unit) ==
    IF unit = "day" THEN delta \div TicksPerDay
    ELSE IF unit = "hour" THEN (delta \div (60 * 60 * TicksPerSecond)) % 24
    ELSE IF unit = "minute" THEN (delta \div (60 * TicksPerSecond)) % 60
    ELSE (delta \div TicksPerSecond) % 60

\* the distance of an instant from the clock cut to the second
Distance(time) ==
    LET clock == replace_microsecond0(At(now))
    IN IF time.t >= clock.t THEN time.t - clock.t ELSE clock.t - time.t

\* the units a relative text names
Named(out) == {out.parts[i].unit : i \in DOMAIN out.parts}

\* C28: format_time returns the relative form exactly when the instant is at
\* most 7 days from the clock, and else the instant in the user's time zone;
\* the relative form names at most two units, each with its non-zero count in
\* the duration, in the order day, hour, minute, second, a unit left out
\* having a zero count or coming after the two named, and a part is singular
\* exactly when its count is 1.
C28_RelativeTwoUnits ==
    "t1" \in DOMAIN handlers =>
        LET out == replies["t1"]
            delta == Distance(handlers["t1"].time)
        IN /\ out.kind = "relative" <=> delta <= RelativeLimit
           /\ out.kind = "absolute" =>
                 /\ out.time = handlers["t1"].time
                 /\ out.timezone = handlers["t1"].user_info.timezone
           /\ out.kind = "relative" =>
                 /\ Len(out.parts) <= 2
                 /\ \A i \in DOMAIN out.parts :
                       /\ \E k \in DOMAIN Units : Units[k] = out.parts[i].unit
                       /\ out.parts[i].val = UnitCount(delta, out.parts[i].unit)
                       /\ out.parts[i].val > 0
                       /\ out.parts[i].plural <=> out.parts[i].val # 1
                 /\ \A i, j \in DOMAIN out.parts :
                       i < j => Rank(out.parts[i].unit) < Rank(out.parts[j].unit)
                 /\ \A k \in DOMAIN Units :
                       (UnitCount(delta, Units[k]) > 0 /\ Units[k] \notin Named(out))
                       => /\ Len(out.parts) = 2
                          /\ k > Rank(out.parts[2].unit)

\* "1 day and 15 minutes ago" for an instant 1 day, 15 minutes and 59
\* seconds before the clock: the hour is skipped, the seconds are dropped
C28_Witness ==
    /\ "t1" \in DOMAIN handlers
    /\ replies["t1"] = Relative("", <<[val |-> 1, unit |-> "day", plural |-> FALSE],
                                      [val |-> 15, unit |-> "minute", plural |-> TRUE]>>,
                                " ago")
    /\ UnitCount(Distance(handlers["t1"].time), "second") = 59

\* C29 as stated: for an instant at most 7 days from the clock (taken to the
\* second, as format_time reads it) the text is "in " and the duration for
\* an instant after the clock and the duration and " ago" for one before it,
\* "2 hours and 15 minutes" for that offset, and it names at least one unit.
C29_RelativeNamesUnit ==
    ("t1" \in DOMAIN handlers /\ Distance(handlers["t1"].time) <= RelativeLimit) =>
        LET out == replies["t1"]
            time == handlers["t1"].time
            clock == replace_microsecond0(At(now))
        IN /\ out.kind = "relative"
           /\ time.t >= clock.t => out.prefix = "in " /\ out.suffix = ""
           /\ time.t < clock.t => out.prefix = "" /\ out.suffix = " ago"
           /\ Distance(time) = Offset(0, 2, 15, 0, 0) =>
                 out.parts = <<[val |-> 2, unit |-> "hour", plural |-> TRUE],
                               [val |-> 15, unit |-> "minute", plural |-> TRUE]>>
           /\ Len(out.parts) >= 1

\* C30 as stated: parse_date raises the past-time error exactly when the
\* extracted instant, cut to the second, is not after the clock, and an
\* instant it returns is after the clock.
C30_PastOrNowRejected ==
    ("p1" \in DOMAIN handlers /\ handlers["p1"].time.set) =>
        LET r == replies["p1"]
            rounded == replace_microsecond0(handlers["p1"].time)
        IN /\ r.error = "is in the past" <=> rounded.t <= now
           /\ r.error = None => r.date.set /\ r.date.t > now

====
